---- MODULE Spec2Model ----
(***************************************************************************)
(* Model of the TSA SSH gateway, cmd/tsa/server.go.                        *)
(*                                                                         *)
(* Spec       one SSH connection whose handshake succeeded: handleConn,    *)
(*            handleForwardRequests, the forwardTCPIP dispatchers and the  *)
(*            heartbeaters, driven by a client that sends global requests, *)
(*            opens channels, sends channel requests and disconnects.      *)
(* FairSpec   Spec with weak fairness on the gateway's own goroutines.     *)
(* ServeSpec  the accept loop Serve over several TCP connections.          *)
(* ForwardSpec                                                             *)
(*            one forwardTCPIP process with its listener, the local        *)
(*            connections it accepts and the forwardLocalConn goroutines   *)
(*            it spawns; Spec keeps of a dispatcher only its listener and  *)
(*            its exit.                                                    *)
(* PipeSpec   one forwardLocalConn goroutine with its two pipe goroutines. *)
(***************************************************************************)
EXTENDS Integers, Sequences, FiniteSets, TLC

\* ----------------------------------------------------------------- bounds
MaxClientMsgs == 4      \* messages the client sends on the connection
MaxFairClientMsgs == 3  \* the same, in the behaviours checked for liveness
MaxConns == 3           \* TCP connections Serve accepts (ServeSpec)
MaxHeartbeaters == 2    \* heartbeaters one handler starts in ServeSpec
MaxLocalConns == 3      \* local connections made to one forward's listener (ForwardSpec)
MaxPeerReqs == 2        \* requests the peer sends on a forwarded-tcpip channel (PipeSpec)

\* ------------------------------------------------------ program constants
\* a forwards queue with room for one record only
QueueCapOne == 2 - 1

QueueCap == 2           \* make(chan forwardedTCPIP, 2)
ForwardCap == 2         \* if forwardedThings > 2

forwardHost == "gateway.example"

\* --------------------------------------------------------------- strings
\* A string "host:port" or "scheme" ++ "host:port" is kept as its parts.
NoAddr == [scheme |-> "", host |-> "", port |-> 0]

\* fmt.Sprintf("%s:%d", host, port)
HostPort(host, port) == [scheme |-> "", host |-> host, port |-> port]

\* fmt.Sprintf("http://%s:%d", host, port)
HttpURL(host, port) == [scheme |-> "http://", host |-> host, port |-> port]

\* ---------------------------------------------------------------- inputs
\* tcpip-forward payloads (string bindIP, uint32 bindPort)
BindRequests ==
    { [BindIP |-> "0.0.0.0", BindPort |-> 7777],
      [BindIP |-> "0.0.0.0", BindPort |-> 0] }

NoBind == [BindIP |-> "", BindPort |-> 0]

\* global requests: a well-formed tcpip-forward, one whose payload does not
\* unmarshal, and a request of another type
GlobalRequests ==
    { [Type |-> "tcpip-forward", payloadOK |-> TRUE, req |-> b] : b \in BindRequests }
    \cup { [Type |-> "tcpip-forward", payloadOK |-> FALSE, req |-> NoBind],
           [Type |-> "cancel-tcpip-forward", payloadOK |-> TRUE, req |-> NoBind] }

\* ports the OS hands out for net.Listen("tcp", "0.0.0.0:0")
OSPorts == {32768, 32769}

\* exec command strings
Commands ==
    { [name |-> "register-worker", garden |-> NoAddr, baggageclaim |-> NoAddr],
      [name |-> "forward-worker", garden |-> NoAddr, baggageclaim |-> NoAddr],
      [name |-> "forward-worker", garden |-> HostPort("0.0.0.0", 7777),
                                  baggageclaim |-> HostPort("0.0.0.0", 0)],
      [name |-> "forward-worker", garden |-> HostPort("0.0.0.0", 7777),
                                  baggageclaim |-> HostPort("0.0.0.0", 7788)],
      [name |-> "forward-worker", garden |-> HostPort("0.0.0.0", 7788),
                                  baggageclaim |-> HostPort("0.0.0.0", 7777)],
      [name |-> "land-worker", garden |-> NoAddr, baggageclaim |-> NoAddr] }

NoCommand == [name |-> "", garden |-> NoAddr, baggageclaim |-> NoAddr]

\* channel requests: exec with a command, exec whose payload does not
\* unmarshal, and a request of another type
ChannelRequests ==
    { [Type |-> "exec", payloadOK |-> TRUE, Command |-> c] : c \in Commands }
    \cup { [Type |-> "exec", payloadOK |-> FALSE, Command |-> NoCommand],
           [Type |-> "shell", payloadOK |-> TRUE, Command |-> NoCommand] }

ChannelTypes == {"session", "direct-tcpip"}

\* worker descriptors the worker writes on its session channel
Workers ==
    { [GardenAddr |-> HostPort("10.0.0.5", 7777),
       BaggageclaimURL |-> HttpURL("10.0.0.5", 7788)] }

NoWorker == [GardenAddr |-> NoAddr, BaggageclaimURL |-> NoAddr]

\* ----------------------------------------------------------------- state
VARIABLES
    connOpen,         \* the SSH connection (its mux) is alive
    reqs,             \* global requests delivered and not yet consumed
    clientSent,       \* messages the client has sent on the connection
    chans,            \* new channels delivered and not yet consumed
    requests,         \* requests of the accepted session channel, not yet consumed
    channelOpen,      \* the accepted session channel is open
    hcPc,             \* handleConn: where the goroutine is
    processes,        \* handleConn: var processes []ifrit.Process
    r,                \* handleConn: the parsed forwardWorkerRequest
    i,                \* handleConn: index of the collection loop
    forwards,         \* handleConn: forwards map, as its set of entries
    args,             \* handleConn: ports passed to continuouslyRegisterForwardedWorker
    waitIdx,          \* cleanup: index of the wait loop
    forwardedTCPIPs,  \* make(chan forwardedTCPIP, 2)
    hfrPc,            \* handleForwardRequests: where the goroutine is
    forwardedThings,  \* handleForwardRequests: var forwardedThings int
    pending,          \* handleForwardRequests: the record about to be sent
    procs,            \* every ifrit process spawned for the connection
    awaited,          \* processes whose Wait() handleConn has received from
    channelLog,       \* channel requests consumed, with the reply each got
    globalLog,        \* global requests consumed, with the reply each got
    channelOut,       \* diagnostics written to the session channel
    logged,           \* messages the gateway has logged
    servePc,          \* Serve: where the loop is
    accepted,         \* Serve: TCP connections accepted so far
    handshake,        \* Serve: outcome of ssh.NewServerConn per connection
    handler,          \* Serve: state of the handleConn goroutine per connection
    heartbeaters,     \* Serve: heartbeaters started per connection
    fwdPc,            \* forwardTCPIP: where the process's function is
    fwdReady,         \* forwardTCPIP: ready has been closed
    fwdSignals,       \* forwardTCPIP: an interrupt has been delivered on signals
    fwdSigPc,         \* forwardTCPIP: where the goroutine reading signals is
    fwdListener,      \* forwardTCPIP: the listener, "open" or "closed"
    fwdBacklog,       \* forwardTCPIP: local connections made and not yet accepted
    fwdTasks,         \* forwardTCPIP: the forwardLocalConn goroutines spawned
    flcPc,            \* forwardLocalConn: where the goroutine is
    flcLocalConn,     \* forwardLocalConn: localConn, "open" or "closed"
    flcChannel,       \* forwardLocalConn: the forwarded-tcpip channel, "none", "open" or "closed"
    flcPipes,         \* forwardLocalConn: where each of the two pipe goroutines is
    flcWg,            \* forwardLocalConn: the WaitGroup's counter
    flcReqs,          \* forwardLocalConn: requests on the channel, not yet consumed
    flcIgnored        \* forwardLocalConn: requests replied false

connVars == <<connOpen, reqs, clientSent, chans, requests,
              channelOpen, hcPc, processes, r, i, forwards, args, waitIdx,
              forwardedTCPIPs, hfrPc, forwardedThings, pending, procs, awaited,
              channelLog, globalLog, channelOut, logged>>

serveVars == <<servePc, accepted, handshake, handler, heartbeaters>>

fwdVars == <<fwdPc, fwdReady, fwdSignals, fwdSigPc, fwdListener, fwdBacklog, fwdTasks>>

flcVars == <<flcPc, flcLocalConn, flcChannel, flcPipes, flcWg, flcReqs, flcIgnored>>

vars == <<connVars, serveVars, fwdVars, flcVars>>

clientVars == <<reqs, clientSent, chans, requests>>
hcLocals == <<processes, r, i, forwards, args, waitIdx>>
hfrVars == <<hfrPc, forwardedThings, pending, globalLog>>

\* ------------------------------------------------------------ processes
NoArgs == [gardenPort |-> 0, baggageclaimPort |-> 0]
NoGlobalRequest == [Type |-> "", payloadOK |-> FALSE, req |-> NoBind]
NoPending == [request |-> NoGlobalRequest, bindAddr |-> NoAddr, boundPort |-> 0, process |-> 0]

ProcIds == DOMAIN procs
Dispatchers == { p \in ProcIds : procs[p].kind = "forwardTCPIP" }
Heartbeaters == { p \in ProcIds : procs[p].kind = "heartbeater" }

\* ifrit.Background(...): the process starts running, unsignalled
Background(kind, logger, port, ip, forPort, worker) ==
    [kind |-> kind, logger |-> logger, state |-> "running", signalled |-> FALSE,
     exitErr |-> FALSE, cadence |-> "heartbeat",
     boundPort |-> port, listenerOpen |-> (kind = "forwardTCPIP"),
     forwardIP |-> ip, forwardPort |-> forPort, worker |-> worker]

OpenPorts == { procs[p].boundPort : p \in { d \in Dispatchers : procs[d].listenerOpen } }

RangeOf(s) == { s[k] : k \in DOMAIN s }

\* the first loop of cleanup stopping after the first process
SignalOnlyFirst(ps) ==
    [p \in DOMAIN procs |->
        IF ps # <<>> /\ p = Head(ps) THEN [procs[p] EXCEPT !.signalled = TRUE] ELSE procs[p]]

\* p.Signal(os.Interrupt) for every p of ps
SignalAll(ps) ==
    [p \in DOMAIN procs |->
        IF p \in RangeOf(ps) THEN [procs[p] EXCEPT !.signalled = TRUE] ELSE procs[p]]

\* ------------------------------------------------------------------ Init
Init ==
    /\ connOpen = TRUE
    /\ reqs = <<>> /\ clientSent = 0
    /\ chans = <<>>
    /\ requests = <<>>
    /\ channelOpen = FALSE
    /\ hcPc = "chans"
    /\ processes = <<>>
    /\ r = NoCommand
    /\ i = 0
    /\ forwards = {}
    /\ args = NoArgs
    /\ waitIdx = 0
    /\ forwardedTCPIPs = <<>>
    /\ hfrPc = "recv"
    /\ forwardedThings = 0
    /\ pending = NoPending
    /\ procs = <<>>
    /\ awaited = {}
    /\ channelLog = <<>>
    /\ globalLog = <<>>
    /\ channelOut = <<>>
    /\ logged = {}
    /\ servePc = "accept"
    /\ accepted = 0
    /\ handshake = [c \in 1..MaxConns |-> "none"]
    /\ handler = [c \in 1..MaxConns |-> "none"]
    /\ heartbeaters = [c \in 1..MaxConns |-> 0]
    /\ fwdPc = "start"
    /\ fwdReady = FALSE
    /\ fwdSignals = FALSE
    /\ fwdSigPc = "waiting"
    /\ fwdListener = "open"
    /\ fwdBacklog = 0
    /\ fwdTasks = <<>>
    /\ flcPc = "start"
    /\ flcLocalConn = "open"
    /\ flcChannel = "none"
    /\ flcPipes = [p \in {"toLocal", "toChannel"} |-> "none"]
    /\ flcWg = 0
    /\ flcReqs = 0
    /\ flcIgnored = 0

\* ---------------------------------------------------------------- client
\* The peer sends a global request; the mux delivers it on reqs.
ClientGlobalRequest(max) ==
    /\ connOpen
    /\ clientSent < max
    /\ \E g \in GlobalRequests : reqs' = Append(reqs, g)
    /\ clientSent' = clientSent + 1
    /\ UNCHANGED <<connOpen, chans, requests, channelOpen,
                   hcPc, hcLocals, forwardedTCPIPs, hfrVars, procs, awaited,
                   channelLog, channelOut, logged, serveVars, fwdVars, flcVars>>

\* The peer opens a channel; the mux delivers it on chans.
ClientOpenChannel(max) ==
    /\ connOpen
    /\ clientSent < max
    /\ \E t \in ChannelTypes : chans' = Append(chans, t)
    /\ clientSent' = clientSent + 1
    /\ UNCHANGED <<connOpen, reqs, requests, channelOpen,
                   hcPc, hcLocals, forwardedTCPIPs, hfrVars, procs, awaited,
                   channelLog, channelOut, logged, serveVars, fwdVars, flcVars>>

\* The peer sends a request on the accepted session channel.
ClientChannelRequest(max) ==
    /\ connOpen
    /\ channelOpen
    /\ clientSent < max
    /\ \E q \in ChannelRequests : requests' = Append(requests, q)
    /\ clientSent' = clientSent + 1
    /\ UNCHANGED <<connOpen, reqs, chans, channelOpen,
                   hcPc, hcLocals, forwardedTCPIPs, hfrVars, procs, awaited,
                   channelLog, channelOut, logged, serveVars, fwdVars, flcVars>>

\* The peer closes the session channel: its requests channel is closed.
ClientCloseChannel ==
    /\ connOpen
    /\ channelOpen
    /\ channelOpen' = FALSE
    /\ UNCHANGED <<connOpen, clientVars, hcPc, hcLocals, forwardedTCPIPs, hfrVars,
                   procs, awaited, channelLog, channelOut, logged, serveVars, fwdVars, flcVars>>

\* The peer disconnects or the transport dies: the mux loop ends and closes
\* chans, reqs and every channel's requests; what is buffered stays readable.
ConnectionLost ==
    /\ connOpen
    /\ connOpen' = FALSE
    /\ channelOpen' = FALSE
    /\ UNCHANGED <<clientVars, hcPc, hcLocals, forwardedTCPIPs, hfrVars,
                   procs, awaited, channelLog, channelOut, logged, serveVars, fwdVars, flcVars>>

\* ------------------------------------------------- handleForwardRequests
\* every reply sent as a success
GlobalReplyAlwaysTrue(g, ok, port) == [request |-> g, ok |-> TRUE, BoundPort |-> port]

GlobalReply(g, ok, port) == [request |-> g, ok |-> ok, BoundPort |-> port]

\* forPort taken from the listener whatever the client asked for
ForPortAlwaysBound(bindPort, boundPort) == boundPort

\* forPort := req.BindPort; if forPort == 0 { forPort = res.BoundPort }
ForPort(bindPort, boundPort) == IF bindPort = 0 THEN boundPort ELSE bindPort

\* forwardedThings++ done only once the payload has unmarshalled
CountForwardIfWellFormed(n, g) == IF g.payloadOK THEN n + 1 ELSE n

\* forwardedThings++, for every tcpip-forward request
CountForward(n, g) == n + 1

\* One iteration of "for r := range reqs", up to the send on forwardedTCPIPs.
HandleForwardRequest ==
    /\ hfrPc = "recv"
    /\ reqs # <<>>
    /\ LET g == Head(reqs) IN
       /\ reqs' = Tail(reqs)
       /\ IF g.Type = "tcpip-forward"
          THEN /\ forwardedThings' = CountForward(forwardedThings, g)
               /\ IF forwardedThings' > ForwardCap
                  THEN /\ logged' = logged \cup {"rejecting-extra-forward-request"}
                       /\ globalLog' = Append(globalLog, GlobalReply(g, FALSE, 0))
                       /\ UNCHANGED <<hfrPc, pending, procs>>
                  ELSE IF ~g.payloadOK
                  THEN /\ logged' = logged \cup {"malformed-tcpip-request"}
                       /\ globalLog' = Append(globalLog, GlobalReply(g, FALSE, 0))
                       /\ UNCHANGED <<hfrPc, pending, procs>>
                  ELSE \/ /\ logged' = logged \cup {"failed-to-listen"}
                          /\ globalLog' = Append(globalLog, GlobalReply(g, FALSE, 0))
                          /\ UNCHANGED <<hfrPc, pending, procs>>
                       \/ \* net.Listen succeeded on an OS-chosen port
                          \E port \in OSPorts \ OpenPorts :
                            /\ procs' = Append(procs,
                                   Background("forwardTCPIP", "tcpip-forward", port, g.req.BindIP,
                                              ForPort(g.req.BindPort, port), NoWorker))
                            /\ pending' = [request |-> g,
                                           bindAddr |-> HostPort(g.req.BindIP, g.req.BindPort),
                                           boundPort |-> port,
                                           process |-> Len(procs) + 1]
                            /\ hfrPc' = "send"
                            /\ logged' = logged \cup {"forwarding-tcpip"}
                            /\ UNCHANGED globalLog
          ELSE /\ logged' = logged \cup {"ignoring-request"}
               /\ globalLog' = Append(globalLog, GlobalReply(g, FALSE, 0))
               /\ UNCHANGED <<hfrPc, forwardedThings, pending, procs>>
    /\ UNCHANGED <<connOpen, clientSent, chans, requests,
                   channelOpen, hcPc, hcLocals, forwardedTCPIPs, awaited,
                   channelLog, channelOut, serveVars, fwdVars, flcVars>>

\* SendForwarded replying true without having sent the record
SendForwardedDropsRecord ==
    /\ hfrPc = "send"
    /\ globalLog' = Append(globalLog, GlobalReply(pending.request, TRUE, pending.boundPort))
    /\ pending' = NoPending
    /\ hfrPc' = "recv"
    /\ UNCHANGED <<connOpen, clientVars, channelOpen, hcPc, hcLocals, forwardedThings,
                   forwardedTCPIPs, procs, awaited, channelLog, channelOut, logged, serveVars, fwdVars, flcVars>>

\* forwardedTCPIPs <- forwardedTCPIP{...} blocks while the queue is full;
\* then r.Reply(true, ssh.Marshal(res)).
SendForwarded ==
    /\ hfrPc = "send"
    /\ Len(forwardedTCPIPs) < QueueCap
    /\ forwardedTCPIPs' = Append(forwardedTCPIPs,
           [bindAddr |-> pending.bindAddr, boundPort |-> pending.boundPort,
            process |-> pending.process])
    /\ globalLog' = Append(globalLog, GlobalReply(pending.request, TRUE, pending.boundPort))
    /\ pending' = NoPending
    /\ hfrPc' = "recv"
    /\ UNCHANGED <<connOpen, clientVars, channelOpen, hcPc, hcLocals, forwardedThings,
                   procs, awaited, channelLog, channelOut, logged, serveVars, fwdVars, flcVars>>

\* HandleForwardRequestsReturn without the deferred listener.Close()
HandleForwardRequestsReturnLeavesListeners ==
    /\ hfrPc = "recv"
    /\ reqs = <<>>
    /\ ~connOpen
    /\ hfrPc' = "done"
    /\ UNCHANGED <<connOpen, clientVars, channelOpen, hcPc, hcLocals, forwardedTCPIPs,
                   forwardedThings, pending, globalLog, procs, awaited,
                   channelLog, channelOut, logged, serveVars, fwdVars, flcVars>>

\* reqs is closed and drained: the loop ends and every deferred
\* listener.Close() runs.
HandleForwardRequestsReturn ==
    /\ hfrPc = "recv"
    /\ reqs = <<>>
    /\ ~connOpen
    /\ hfrPc' = "done"
    /\ procs' = [p \in DOMAIN procs |-> [procs[p] EXCEPT !.listenerOpen = FALSE]]
    /\ UNCHANGED <<connOpen, clientVars, channelOpen, hcPc, hcLocals, forwardedTCPIPs,
                   forwardedThings, pending, globalLog, awaited,
                   channelLog, channelOut, logged, serveVars, fwdVars, flcVars>>

\* ------------------------------------------------------------ forwardTCPIP
\* go func() { <-signals; listener.Close() }()
DispatcherInterrupted(p) ==
    /\ procs[p].kind = "forwardTCPIP"
    /\ procs[p].signalled
    /\ procs[p].listenerOpen
    /\ procs' = [procs EXCEPT ![p].listenerOpen = FALSE]
    /\ UNCHANGED <<connOpen, clientVars, channelOpen, hcPc, hcLocals, forwardedTCPIPs,
                   hfrVars, awaited, channelLog, channelOut, logged, serveVars, fwdVars, flcVars>>

\* listener.Accept() fails once the listener is closed: break; return nil
DispatcherExit(p) ==
    /\ procs[p].kind = "forwardTCPIP"
    /\ procs[p].state = "running"
    /\ ~procs[p].listenerOpen
    /\ procs' = [procs EXCEPT ![p].state = "exited"]
    /\ UNCHANGED <<connOpen, clientVars, channelOpen, hcPc, hcLocals, forwardedTCPIPs,
                   hfrVars, awaited, channelLog, channelOut, logged, serveVars, fwdVars, flcVars>>

\* ------------------------------------------------------------- heartbeater
\* A registration fails and the heartbeater falls back to the CPR cadence, or
\* succeeds again and returns to the heartbeat cadence; neither ends it.
HeartbeaterRegisters(p) ==
    /\ procs[p].kind = "heartbeater"
    /\ procs[p].state = "running"
    /\ \/ /\ procs[p].cadence = "heartbeat"
          /\ procs' = [procs EXCEPT ![p].cadence = "cpr"]
       \/ /\ procs[p].cadence = "cpr"
          /\ procs' = [procs EXCEPT ![p].cadence = "heartbeat"]
    /\ UNCHANGED <<connOpen, clientVars, channelOpen, hcPc, hcLocals, forwardedTCPIPs,
                   hfrVars, awaited, channelLog, channelOut, logged, serveVars, fwdVars, flcVars>>

\* The heartbeater stops once it is interrupted, with or without an error.
HeartbeaterExit(p) ==
    /\ procs[p].kind = "heartbeater"
    /\ procs[p].state = "running"
    /\ procs[p].signalled
    /\ \E err \in BOOLEAN :
         procs' = [procs EXCEPT ![p].state = "exited", ![p].exitErr = err]
    /\ UNCHANGED <<connOpen, clientVars, channelOpen, hcPc, hcLocals, forwardedTCPIPs,
                   hfrVars, awaited, channelLog, channelOut, logged, serveVars, fwdVars, flcVars>>

\* -------------------------------------------------------------- handleConn
\* parseRequest: the exec command as a worker request, or an error
parseRequest(cmd) ==
    [ok |-> cmd.name \in {"register-worker", "forward-worker"},
     kind |-> cmd.name,
     gardenAddr |-> cmd.garden,
     baggageclaimAddr |-> cmd.baggageclaim]

\* forwardWorkerRequest.expectedForwards
expectedForwards(req) ==
    IF req.garden # NoAddr /\ req.baggageclaim # NoAddr THEN 2 ELSE 1

ChannelReply(q, reply) == [request |-> q, reply |-> reply]

\* HandleNewChannel taking a channel of any type for a session
HandleNewChannelAcceptsAny ==
    /\ hcPc = "chans"
    /\ chans # <<>>
    /\ chans' = Tail(chans)
    /\ IF connOpen
       THEN /\ channelOpen' = TRUE
            /\ requests' = <<>>
            /\ hcPc' = "requests"
            /\ UNCHANGED logged
       ELSE /\ logged' = logged \cup {"failed-to-accept-channel"}
            /\ hcPc' = "cleanup"
            /\ UNCHANGED <<channelOpen, requests>>
    /\ UNCHANGED <<connOpen, reqs, clientSent, hcLocals,
                   forwardedTCPIPs, hfrVars, procs, awaited, channelLog,
                   channelOut, serveVars, fwdVars, flcVars>>

\* "for newChannel := range chans": reject, accept, or fail to accept
HandleNewChannel ==
    /\ hcPc = "chans"
    /\ chans # <<>>
    /\ chans' = Tail(chans)
    /\ IF Head(chans) # "session"
       THEN \* newChannel.Reject(ssh.UnknownChannelType, ...); continue
            /\ logged' = logged \cup {"rejecting-unknown-channel-type"}
            /\ UNCHANGED <<hcPc, channelOpen, requests>>
       ELSE IF connOpen
       THEN \* newChannel.Accept(); defer channel.Close()
            /\ channelOpen' = TRUE
            /\ requests' = <<>>
            /\ hcPc' = "requests"
            /\ UNCHANGED logged
       ELSE \* newChannel.Accept() fails; return
            /\ logged' = logged \cup {"failed-to-accept-channel"}
            /\ hcPc' = "cleanup"
            /\ UNCHANGED <<channelOpen, requests>>
    /\ UNCHANGED <<connOpen, reqs, clientSent, hcLocals,
                   forwardedTCPIPs, hfrVars, procs, awaited, channelLog,
                   channelOut, serveVars, fwdVars, flcVars>>

\* chans is closed and drained: the loop ends and handleConn returns
ChansClosed ==
    /\ hcPc = "chans"
    /\ chans = <<>>
    /\ ~connOpen
    /\ hcPc' = "cleanup"
    /\ UNCHANGED <<connOpen, clientVars, channelOpen, hcLocals, forwardedTCPIPs,
                   hfrVars, procs, awaited, channelLog, channelOut, logged, serveVars, fwdVars, flcVars>>

\* requests is closed and drained: back to the loop over chans
RequestsClosed ==
    /\ hcPc = "requests"
    /\ requests = <<>>
    /\ ~channelOpen
    /\ hcPc' = "chans"
    /\ UNCHANGED <<connOpen, clientVars, channelOpen, hcLocals, forwardedTCPIPs,
                   hfrVars, procs, awaited, channelLog, channelOut, logged, serveVars, fwdVars, flcVars>>

\* One iteration of "for req := range requests", up to the first blocking
\* call of the case taken.
HandleChannelRequest ==
    /\ hcPc = "requests"
    /\ requests # <<>>
    /\ requests' = Tail(requests)
    /\ LET q == Head(requests)
           w == parseRequest(q.Command)
       IN
       IF q.Type # "exec"
       THEN \* continue
            /\ logged' = logged \cup {"rejecting"}
            /\ channelLog' = Append(channelLog, ChannelReply(q, "false"))
            /\ UNCHANGED <<hcPc, r, i, forwards, channelOut>>
       ELSE IF ~q.payloadOK
       THEN \* return
            /\ logged' = logged \cup {"malformed-exec-request"}
            /\ channelLog' = Append(channelLog, ChannelReply(q, "false"))
            /\ hcPc' = "cleanup"
            /\ UNCHANGED <<r, i, forwards, channelOut>>
       ELSE IF ~w.ok
       THEN \* invalid command; continue
            /\ channelOut' = Append(channelOut, [msg |-> "invalid command", addr |-> NoAddr])
            /\ channelLog' = Append(channelLog, ChannelReply(q, "false"))
            /\ UNCHANGED <<hcPc, r, i, forwards, logged>>
       ELSE IF w.kind = "register-worker"
       THEN /\ channelLog' = Append(channelLog, ChannelReply(q, "true"))
            /\ hcPc' = "decode-direct"
            /\ UNCHANGED <<r, i, forwards, channelOut, logged>>
       ELSE \* forwardWorkerRequest: no reply is sent
            /\ channelLog' = Append(channelLog, ChannelReply(q, "none"))
            /\ r' = q.Command
            /\ forwards' = {}
            /\ i' = 0
            /\ hcPc' = "collect"
            /\ UNCHANGED <<channelOut, logged>>
    /\ UNCHANGED <<connOpen, reqs, clientSent, chans, channelOpen,
                   processes, args, waitIdx, forwardedTCPIPs, hfrVars, procs, awaited,
                   serveVars, fwdVars, flcVars>>

\* forwards[forwarded.bindAddr] = forwarded
MapPut(m, f) == { e \in m : e.bindAddr # f.bindAddr } \cup {f}
MapHas(m, key) == \E e \in m : e.bindAddr = key
MapGet(m, key) == CHOOSE e \in m : e.bindAddr = key

\* AfterCollect handing the single forward's port on as baggageclaimPort too
AfterCollectOneAsBoth(m, req) ==
    IF Cardinality(m) = 0
    THEN [pc |-> "cleanup", args |-> NoArgs,
          out |-> <<[msg |-> "requested forwarding but no forwards given", addr |-> NoAddr]>>]
    ELSE IF Cardinality(m) = 1
    THEN [pc |-> "decode-forwarded",
          args |-> [gardenPort |-> (CHOOSE e \in m : TRUE).boundPort,
                    baggageclaimPort |-> (CHOOSE e \in m : TRUE).boundPort],
          out |-> <<>>]
    ELSE IF ~MapHas(m, req.garden)
    THEN [pc |-> "cleanup", args |-> NoArgs,
          out |-> <<[msg |-> "garden address not found in forwards", addr |-> req.garden]>>]
    ELSE IF ~MapHas(m, req.baggageclaim)
    THEN [pc |-> "cleanup", args |-> NoArgs,
          out |-> <<[msg |-> "baggageclaim address not found in forwards", addr |-> req.garden]>>]
    ELSE [pc |-> "decode-forwarded",
          args |-> [gardenPort |-> MapGet(m, req.garden).boundPort,
                    baggageclaimPort |-> MapGet(m, req.baggageclaim).boundPort],
          out |-> <<>>]

\* "switch len(forwards)": where handleConn goes after the collection loop,
\* with the ports it passes on and the diagnostic it writes
AfterCollect(m, req) ==
    IF Cardinality(m) = 0
    THEN [pc |-> "cleanup", args |-> NoArgs,
          out |-> <<[msg |-> "requested forwarding but no forwards given", addr |-> NoAddr]>>]
    ELSE IF Cardinality(m) = 1
    THEN [pc |-> "decode-forwarded",
          args |-> [gardenPort |-> (CHOOSE e \in m : TRUE).boundPort, baggageclaimPort |-> 0],
          out |-> <<>>]
    ELSE IF ~MapHas(m, req.garden)
    THEN [pc |-> "cleanup", args |-> NoArgs,
          out |-> <<[msg |-> "garden address not found in forwards", addr |-> req.garden]>>]
    ELSE IF ~MapHas(m, req.baggageclaim)
    THEN [pc |-> "cleanup", args |-> NoArgs,
          out |-> <<[msg |-> "baggageclaim address not found in forwards", addr |-> req.garden]>>]
    ELSE [pc |-> "decode-forwarded",
          args |-> [gardenPort |-> MapGet(m, req.garden).boundPort,
                    baggageclaimPort |-> MapGet(m, req.baggageclaim).boundPort],
          out |-> <<>>]

\* One iteration of the collection loop; m is the map after it. After the
\* last iteration the switch on len(forwards) is taken.
CollectStep(m) ==
    /\ forwards' = m
    /\ i' = i + 1
    /\ IF i + 1 < expectedForwards(r)
       THEN UNCHANGED <<hcPc, args, channelOut>>
       ELSE LET next == AfterCollect(m, r) IN
            /\ hcPc' = next.pc
            /\ args' = next.args
            /\ channelOut' = channelOut \o next.out

\* case forwarded := <-forwardedTCPIPs
CollectForwarded ==
    /\ hcPc = "collect"
    /\ forwardedTCPIPs # <<>>
    /\ forwardedTCPIPs' = Tail(forwardedTCPIPs)
    /\ processes' = Append(processes, Head(forwardedTCPIPs).process)
    /\ CollectStep(MapPut(forwards, Head(forwardedTCPIPs)))
    /\ logged' = logged \cup {"forwarded-tcpip"}
    /\ UNCHANGED <<connOpen, clientVars, channelOpen, r, waitIdx, hfrVars, procs,
                   awaited, channelLog, serveVars, fwdVars, flcVars>>

\* case <-time.After(10 * time.Second): nothing arrived for ten seconds
CollectTimeout ==
    /\ hcPc = "collect"
    /\ forwardedTCPIPs = <<>>
    /\ CollectStep(forwards)
    /\ logged' = logged \cup {"never-forwarded-tcpip"}
    /\ UNCHANGED <<connOpen, clientVars, channelOpen, processes, r, waitIdx,
                   forwardedTCPIPs, hfrVars, procs, awaited, channelLog, serveVars, fwdVars, flcVars>>

\* continuouslyRegisterWorkerDirectly: the descriptor as decoded
continuouslyRegisterWorkerDirectly(worker) == worker

\* continuouslyRegisterForwardedWorker leaving GardenAddr as declared
continuouslyRegisterForwardedWorkerKeepsGarden(worker, gardenPort, baggageclaimPort) ==
    [worker EXCEPT
        !.BaggageclaimURL = IF baggageclaimPort # 0
                            THEN HttpURL(forwardHost, baggageclaimPort)
                            ELSE @]

\* continuouslyRegisterForwardedWorker with the two ports exchanged
continuouslyRegisterForwardedWorkerSwapped(worker, gardenPort, baggageclaimPort) ==
    [worker EXCEPT
        !.GardenAddr = HostPort(forwardHost, baggageclaimPort),
        !.BaggageclaimURL = IF gardenPort # 0
                            THEN HttpURL(forwardHost, gardenPort)
                            ELSE @]

\* continuouslyRegisterForwardedWorker: the descriptor with its addresses
\* rewritten
continuouslyRegisterForwardedWorker(worker, gardenPort, baggageclaimPort) ==
    [worker EXCEPT
        !.GardenAddr = HostPort(forwardHost, gardenPort),
        !.BaggageclaimURL = IF baggageclaimPort # 0
                            THEN HttpURL(forwardHost, baggageclaimPort)
                            ELSE @]

\* DecodeFails going on with the next request instead of returning
DecodeFailsContinues ==
    /\ hcPc \in {"decode-direct", "decode-forwarded"}
    /\ hcPc' = "requests"
    /\ logged' = logged \cup {"failed-to-register"}
    /\ UNCHANGED <<connOpen, clientVars, channelOpen, hcLocals, forwardedTCPIPs,
                   hfrVars, procs, awaited, channelLog, channelOut, serveVars, fwdVars, flcVars>>

\* json.NewDecoder(channel).Decode(&worker) fails: failed-to-register; return
DecodeFails ==
    /\ hcPc \in {"decode-direct", "decode-forwarded"}
    /\ hcPc' = "cleanup"
    /\ logged' = logged \cup {"failed-to-register"}
    /\ UNCHANGED <<connOpen, clientVars, channelOpen, hcLocals, forwardedTCPIPs,
                   hfrVars, procs, awaited, channelLog, channelOut, serveVars, fwdVars, flcVars>>

\* The descriptor decodes: heartbeatWorker starts the heartbeater, which is
\* appended to processes; handleConn goes on to conn.Wait().
StartHeartbeater ==
    /\ hcPc \in {"decode-direct", "decode-forwarded"}
    /\ \E worker \in Workers :
         procs' = Append(procs, Background("heartbeater",
                     IF hcPc = "decode-direct" THEN "register-worker" ELSE "forward-worker",
                     0, "", 0,
                     IF hcPc = "decode-direct"
                     THEN continuouslyRegisterWorkerDirectly(worker)
                     ELSE continuouslyRegisterForwardedWorker(
                              worker, args.gardenPort, args.baggageclaimPort)))
    /\ processes' = Append(processes, Len(procs) + 1)
    /\ hcPc' = "wait"
    /\ UNCHANGED <<connOpen, clientVars, channelOpen, r, i, forwards, args, waitIdx,
                   forwardedTCPIPs, hfrVars, awaited, channelLog, channelOut, logged, serveVars, fwdVars, flcVars>>

\* conn.Wait() returning while the connection is still open
ConnWaitReturnsAtOnce ==
    /\ hcPc = "wait"
    /\ hcPc' = "requests"
    /\ logged' = logged \cup {"connection-closed"}
    /\ UNCHANGED <<connOpen, clientVars, channelOpen, hcLocals, forwardedTCPIPs,
                   hfrVars, procs, awaited, channelLog, channelOut, serveVars, fwdVars, flcVars>>

\* conn.Wait() returns once the connection is closed; the loop over requests
\* goes on
ConnWaitReturns ==
    /\ hcPc = "wait"
    /\ ~connOpen
    /\ hcPc' = "requests"
    /\ logged' = logged \cup {"connection-closed"}
    /\ UNCHANGED <<connOpen, clientVars, channelOpen, hcLocals, forwardedTCPIPs,
                   hfrVars, procs, awaited, channelLog, channelOut, serveVars, fwdVars, flcVars>>

\* The deferred calls, in reverse order: channel.Close(), then the cleanup
\* function's first loop, p.Signal(os.Interrupt) for every recorded process.
\* With nothing recorded the second loop is empty and conn.Close() follows.
CleanupSignal ==
    /\ hcPc = "cleanup"
    /\ channelOpen' = FALSE
    /\ procs' = SignalAll(processes)
    /\ IF processes = <<>>
       THEN /\ connOpen' = FALSE
            /\ hcPc' = "done"
            /\ UNCHANGED waitIdx
       ELSE /\ hcPc' = "cleanup-wait"
            /\ waitIdx' = 1
            /\ UNCHANGED connOpen
    /\ UNCHANGED <<clientVars, processes, r, i, forwards, args, forwardedTCPIPs,
                   hfrVars, awaited, channelLog, channelOut, logged, serveVars, fwdVars, flcVars>>

\* The cleanup function's second loop: err := <-p.Wait(), logged either way;
\* after the last process, the deferred conn.Close() and handleConn returns.
CleanupWait ==
    /\ hcPc = "cleanup-wait"
    /\ procs[processes[waitIdx]].state = "exited"
    /\ awaited' = awaited \cup {processes[waitIdx]}
    /\ logged' = logged \cup {IF procs[processes[waitIdx]].exitErr
                               THEN "process-exited-with-failure"
                               ELSE "process-exited-successfully"}
    /\ IF waitIdx = Len(processes)
       THEN /\ connOpen' = FALSE
            /\ channelOpen' = FALSE
            /\ hcPc' = "done"
            /\ UNCHANGED waitIdx
       ELSE /\ waitIdx' = waitIdx + 1
            /\ UNCHANGED <<connOpen, channelOpen, hcPc>>
    /\ UNCHANGED <<clientVars, processes, r, i, forwards, args, forwardedTCPIPs,
                   hfrVars, procs, channelLog, channelOut, serveVars, fwdVars, flcVars>>

\* ------------------------------------------------------------------- Spec
\* what the peer and the network do, the peer sending at most max messages
Client(max) ==
    \/ ClientGlobalRequest(max)
    \/ ClientOpenChannel(max)
    \/ ClientChannelRequest(max)
    \/ ClientCloseChannel
    \/ ConnectionLost

\* what the gateway's goroutines do
Gateway ==
    \/ HandleForwardRequest
    \/ SendForwarded
    \/ HandleForwardRequestsReturn
    \/ \E p \in ProcIds : DispatcherInterrupted(p)
    \/ \E p \in ProcIds : DispatcherExit(p)
    \/ \E p \in ProcIds : HeartbeaterRegisters(p)
    \/ \E p \in ProcIds : HeartbeaterExit(p)
    \/ HandleNewChannel
    \/ ChansClosed
    \/ RequestsClosed
    \/ HandleChannelRequest
    \/ CollectForwarded
    \/ CollectTimeout
    \/ DecodeFails
    \/ StartHeartbeater
    \/ ConnWaitReturns
    \/ CleanupSignal
    \/ CleanupWait

Next == Client(MaxClientMsgs) \/ Gateway

Spec == Init /\ [][Next]_vars

FairNext == Client(MaxFairClientMsgs) \/ Gateway

\* The gateway's own goroutines take their steps; the client need not act.
Fairness ==
    /\ WF_vars(HandleForwardRequest)
    /\ WF_vars(SendForwarded)
    /\ WF_vars(HandleForwardRequestsReturn)
    /\ \A p \in 1..MaxClientMsgs : WF_vars(p \in ProcIds /\ DispatcherInterrupted(p))
    /\ \A p \in 1..MaxClientMsgs : WF_vars(p \in ProcIds /\ DispatcherExit(p))
    /\ \A p \in 1..MaxClientMsgs : WF_vars(p \in ProcIds /\ HeartbeaterExit(p))
    /\ WF_vars(HandleNewChannel)
    /\ WF_vars(ChansClosed)
    /\ WF_vars(RequestsClosed)
    /\ WF_vars(HandleChannelRequest)
    /\ WF_vars(CollectForwarded)
    /\ WF_vars(CollectTimeout)
    /\ WF_vars(DecodeFails \/ StartHeartbeater)
    /\ WF_vars(ConnWaitReturns)
    /\ WF_vars(CleanupSignal)
    /\ WF_vars(CleanupWait)

FairSpec == Init /\ [][FairNext]_vars /\ Fairness

\* ------------------------------------------------------------------ Serve
\* c, err := listener.Accept() returns a connection
ServeAccept ==
    /\ servePc = "accept"
    /\ accepted < MaxConns
    /\ accepted' = accepted + 1
    /\ servePc' = "handshake"
    /\ UNCHANGED <<handshake, handler, heartbeaters, connVars, fwdVars, flcVars>>

\* listener.Accept() returns an error: failed-to-accept; return
ServeAcceptFails ==
    /\ servePc = "accept"
    /\ servePc' = "returned"
    /\ UNCHANGED <<accepted, handshake, handler, heartbeaters, connVars, fwdVars, flcVars>>

\* ServeHandshakeFails spawning the handler all the same
ServeHandshakeFailsSpawns ==
    /\ servePc = "handshake"
    /\ handshake' = [handshake EXCEPT ![accepted] = "failed"]
    /\ handler' = [handler EXCEPT ![accepted] = "running"]
    /\ servePc' = "accept"
    /\ UNCHANGED <<accepted, heartbeaters, connVars, fwdVars, flcVars>>

\* ServeHandshakeFails returning from Serve instead of continuing
ServeHandshakeFailsFatal ==
    /\ servePc = "handshake"
    /\ handshake' = [handshake EXCEPT ![accepted] = "failed"]
    /\ servePc' = "returned"
    /\ UNCHANGED <<accepted, handler, heartbeaters, connVars, fwdVars, flcVars>>

\* ssh.NewServerConn fails: handshake-failed; continue
ServeHandshakeFails ==
    /\ servePc = "handshake"
    /\ handshake' = [handshake EXCEPT ![accepted] = "failed"]
    /\ servePc' = "accept"
    /\ UNCHANGED <<accepted, handler, heartbeaters, connVars, fwdVars, flcVars>>

\* ssh.NewServerConn succeeds: go server.handleConn(...)
ServeHandshakeSucceeds ==
    /\ servePc = "handshake"
    /\ handshake' = [handshake EXCEPT ![accepted] = "ok"]
    /\ handler' = [handler EXCEPT ![accepted] = "running"]
    /\ servePc' = "accept"
    /\ UNCHANGED <<accepted, heartbeaters, connVars, fwdVars, flcVars>>

\* handleConn of connection c starts a heartbeater (heartbeatWorker)
HandlerStartsHeartbeater(c) ==
    /\ handler[c] = "running"
    /\ heartbeaters[c] < MaxHeartbeaters
    /\ heartbeaters' = [heartbeaters EXCEPT ![c] = @ + 1]
    /\ UNCHANGED <<servePc, accepted, handshake, handler, connVars, fwdVars, flcVars>>

\* handleConn of connection c returns
HandlerReturns(c) ==
    /\ handler[c] = "running"
    /\ handler' = [handler EXCEPT ![c] = "returned"]
    /\ UNCHANGED <<servePc, accepted, handshake, heartbeaters, connVars, fwdVars, flcVars>>

ServeNext ==
    \/ ServeAccept
    \/ ServeAcceptFails
    \/ ServeHandshakeFails
    \/ ServeHandshakeSucceeds
    \/ \E c \in 1..MaxConns : HandlerStartsHeartbeater(c)
    \/ \E c \in 1..MaxConns : HandlerReturns(c)

ServeSpec == Init /\ [][ServeNext]_vars

\* ----------------------------------------------------- forwardTCPIP, closer
\* One process made by forwardTCPIP, from ifrit.Background on.

\* The function starts: it spawns the goroutine that reads signals and
\* closes ready.
ForwardReady ==
    /\ fwdPc = "start"
    /\ fwdReady' = TRUE
    /\ fwdPc' = "accept"
    /\ UNCHANGED <<fwdSignals, fwdSigPc, fwdListener, fwdBacklog, fwdTasks,
                   connVars, serveVars, flcVars>>

\* p.Signal(os.Interrupt), by the cleanup of handleConn
ForwardSignalled ==
    /\ ~fwdSignals
    /\ fwdSignals' = TRUE
    /\ UNCHANGED <<fwdPc, fwdReady, fwdSigPc, fwdListener, fwdBacklog, fwdTasks,
                   connVars, serveVars, flcVars>>

\* go func() { <-signals; listener.Close() }()
ForwardCloseOnSignal ==
    /\ fwdPc # "start"
    /\ fwdSigPc = "waiting"
    /\ fwdSignals
    /\ fwdListener' = "closed"
    /\ fwdSigPc' = "done"
    /\ UNCHANGED <<fwdPc, fwdReady, fwdSignals, fwdBacklog, fwdTasks,
                   connVars, serveVars, flcVars>>

\* the deferred listener.Close() of handleForwardRequests
ForwardListenerClosed ==
    /\ fwdListener = "open"
    /\ fwdListener' = "closed"
    /\ UNCHANGED <<fwdPc, fwdReady, fwdSignals, fwdSigPc, fwdBacklog, fwdTasks,
                   connVars, serveVars, flcVars>>

\* a local client connects to the listener
LocalConnect ==
    /\ fwdListener = "open"
    /\ fwdBacklog + Len(fwdTasks) < MaxLocalConns
    /\ fwdBacklog' = fwdBacklog + 1
    /\ UNCHANGED <<fwdPc, fwdReady, fwdSignals, fwdSigPc, fwdListener, fwdTasks,
                   connVars, serveVars, flcVars>>

\* localConn, err := listener.Accept() returns a connection:
\* go forwardLocalConn(...)
ForwardAccept ==
    /\ fwdPc = "accept"
    /\ fwdListener = "open"
    /\ fwdBacklog > 0
    /\ fwdBacklog' = fwdBacklog - 1
    /\ fwdTasks' = Append(fwdTasks, "running")
    /\ UNCHANGED <<fwdPc, fwdReady, fwdSignals, fwdSigPc, fwdListener,
                   connVars, serveVars, flcVars>>

\* ForwardAcceptFails returning only once every forwardLocalConn is over
ForwardAcceptFailsJoinsTasks ==
    /\ fwdPc = "accept"
    /\ \A t \in DOMAIN fwdTasks : fwdTasks[t] = "done"
    /\ fwdPc' = "returned"
    /\ UNCHANGED <<fwdReady, fwdSignals, fwdSigPc, fwdListener, fwdBacklog, fwdTasks,
                   connVars, serveVars, flcVars>>

\* listener.Accept() returns an error, as it does once the listener is
\* closed and may do before: failed-to-accept; break; return nil
ForwardAcceptFails ==
    /\ fwdPc = "accept"
    /\ fwdPc' = "returned"
    /\ UNCHANGED <<fwdReady, fwdSignals, fwdSigPc, fwdListener, fwdBacklog, fwdTasks,
                   connVars, serveVars, flcVars>>

\* a forwardLocalConn goroutine returns
ForwardLocalConnReturns(t) ==
    /\ fwdTasks[t] = "running"
    /\ fwdTasks' = [fwdTasks EXCEPT ![t] = "done"]
    /\ UNCHANGED <<fwdPc, fwdReady, fwdSignals, fwdSigPc, fwdListener, fwdBacklog,
                   connVars, serveVars, flcVars>>

ForwardNext ==
    \/ ForwardReady
    \/ ForwardSignalled
    \/ ForwardCloseOnSignal
    \/ ForwardListenerClosed
    \/ LocalConnect
    \/ ForwardAccept
    \/ ForwardAcceptFails
    \/ \E t \in DOMAIN fwdTasks : ForwardLocalConnReturns(t)

\* The process's own goroutines take their steps, and Accept fails once the
\* listener is closed; the forwardLocalConn goroutines need not end.
ForwardFairness ==
    /\ WF_vars(ForwardReady)
    /\ WF_vars(ForwardCloseOnSignal)
    /\ WF_vars(fwdListener = "closed" /\ ForwardAcceptFails)

ForwardSpec == Init /\ [][ForwardNext]_vars /\ ForwardFairness

\* -------------------------------------------------------- forwardLocalConn
\* One forwardLocalConn goroutine, from its start on.
Pipes == {"toLocal", "toChannel"}

\* go pipe(localConn, channel) reads the channel; go pipe(channel, localConn)
\* reads localConn
PipeFrom(p) == IF p = "toLocal" THEN "channel" ELSE "localConn"
PipeTo(p) == IF p = "toLocal" THEN "localConn" ELSE "channel"

EndClosed(e) == IF e = "localConn" THEN flcLocalConn = "closed" ELSE flcChannel = "closed"

\* e.Close()
CloseEnd(e) ==
    /\ flcLocalConn' = IF e = "localConn" THEN "closed" ELSE flcLocalConn
    /\ flcChannel' = IF e = "channel" THEN "closed" ELSE flcChannel

\* The remote address does not split or parse, or conn.OpenChannel fails:
\* return, and the deferred localConn.Close() runs.
ForwardLocalConnFails ==
    /\ flcPc = "start"
    /\ flcPc' = "returned"
    /\ flcLocalConn' = "closed"
    /\ UNCHANGED <<flcChannel, flcPipes, flcWg, flcReqs, flcIgnored,
                   connVars, serveVars, fwdVars>>

\* conn.OpenChannel("forwarded-tcpip", ...) succeeds; the goroutine that
\* ignores the channel's requests and the two pipes are started; wg.Wait()
ForwardLocalConnPipes ==
    /\ flcPc = "start"
    /\ flcChannel' = "open"
    /\ flcPipes' = [p \in Pipes |-> "copy"]
    /\ flcWg' = 2
    /\ flcPc' = "wait"
    /\ UNCHANGED <<flcLocalConn, flcReqs, flcIgnored, connVars, serveVars, fwdVars>>

\* the worker sends a request on the forwarded-tcpip channel
PeerRequest ==
    /\ flcChannel = "open"
    /\ flcReqs + flcIgnored < MaxPeerReqs
    /\ flcReqs' = flcReqs + 1
    /\ UNCHANGED <<flcPc, flcLocalConn, flcChannel, flcPipes, flcWg, flcIgnored,
                   connVars, serveVars, fwdVars>>

\* for r := range reqs { ignoring-request; r.Reply(false, nil) }
IgnoreRequest ==
    /\ flcReqs > 0
    /\ flcReqs' = flcReqs - 1
    /\ flcIgnored' = flcIgnored + 1
    /\ UNCHANGED <<flcPc, flcLocalConn, flcChannel, flcPipes, flcWg,
                   connVars, serveVars, fwdVars>>

\* io.Copy(to, from) returns, on EOF or on an error of either end; the last
\* deferred call, wg.Done(), runs first
PipeCopyReturns(p) ==
    /\ flcPipes[p] = "copy"
    /\ flcPipes' = [flcPipes EXCEPT ![p] = "close-from"]
    /\ flcWg' = flcWg - 1
    /\ UNCHANGED <<flcPc, flcLocalConn, flcChannel, flcReqs, flcIgnored,
                   connVars, serveVars, fwdVars>>

\* the deferred from.Close()
PipeCloseFrom(p) ==
    /\ flcPipes[p] = "close-from"
    /\ flcPipes' = [flcPipes EXCEPT ![p] = "close-to"]
    /\ CloseEnd(PipeFrom(p))
    /\ UNCHANGED <<flcPc, flcWg, flcReqs, flcIgnored, connVars, serveVars, fwdVars>>

\* PipeCloseTo returning without to.Close()
PipeCloseToSkipped(p) ==
    /\ flcPipes[p] = "close-to"
    /\ flcPipes' = [flcPipes EXCEPT ![p] = "returned"]
    /\ UNCHANGED <<flcPc, flcLocalConn, flcChannel, flcWg, flcReqs, flcIgnored,
                   connVars, serveVars, fwdVars>>

\* the deferred to.Close(); the pipe goroutine returns
PipeCloseTo(p) ==
    /\ flcPipes[p] = "close-to"
    /\ flcPipes' = [flcPipes EXCEPT ![p] = "returned"]
    /\ CloseEnd(PipeTo(p))
    /\ UNCHANGED <<flcPc, flcWg, flcReqs, flcIgnored, connVars, serveVars, fwdVars>>

\* wg.Wait() returns; the deferred channel.Close() and localConn.Close() run
\* and forwardLocalConn returns
ForwardLocalConnWaitReturns ==
    /\ flcPc = "wait"
    /\ flcWg = 0
    /\ flcPc' = "returned"
    /\ flcChannel' = "closed"
    /\ flcLocalConn' = "closed"
    /\ UNCHANGED <<flcPipes, flcWg, flcReqs, flcIgnored, connVars, serveVars, fwdVars>>

PipeNext ==
    \/ ForwardLocalConnFails
    \/ ForwardLocalConnPipes
    \/ PeerRequest
    \/ IgnoreRequest
    \/ \E p \in Pipes : PipeCopyReturns(p)
    \/ \E p \in Pipes : PipeCloseFrom(p)
    \/ \E p \in Pipes : PipeCloseTo(p)
    \/ ForwardLocalConnWaitReturns

\* The goroutines run their deferred calls and wg.Wait() returns once the
\* counter is zero; io.Copy is sure to return only when the end it reads is
\* closed, a write to a closed end failing only once there is something to
\* write.
PipeFairness ==
    /\ \A p \in Pipes : WF_vars(EndClosed(PipeFrom(p)) /\ PipeCopyReturns(p))
    /\ \A p \in Pipes : WF_vars(PipeCloseFrom(p))
    /\ \A p \in Pipes : WF_vars(PipeCloseTo(p))
    /\ WF_vars(ForwardLocalConnWaitReturns)

PipeSpec == Init /\ [][PipeNext]_vars /\ PipeFairness

\* ================================================================= claims
Last(q) == q[Len(q)]
CleanupPcs == {"cleanup", "cleanup-wait", "done"}

TcpipForwardsSeen ==
    Cardinality({ k \in DOMAIN globalLog : globalLog[k].request.Type = "tcpip-forward" })
TcpipForwardsAccepted ==
    Cardinality({ k \in DOMAIN globalLog :
                    globalLog[k].request.Type = "tcpip-forward" /\ globalLog[k].ok })

\* handleConn sits in conn.Wait() of a forward-worker session: the last
\* recorded process is the heartbeater of that session
InForwardedSession ==
    /\ hcPc = "wait"
    /\ procs[Last(processes)].logger = "forward-worker"
SessionWorker == procs[Last(processes)].worker

PointsAtGateway(addr) == addr.host = forwardHost
DeclaredGardenAddrs == { w.GardenAddr : w \in Workers }
DeclaredBaggageclaimURLs == { w.BaggageclaimURL : w \in Workers }

\* C1, as claimed: when handleConn returns, every process spawned for the
\* connection (forward dispatchers, collected or not, and heartbeaters) has
\* been sent an interrupt and has been awaited by handleConn.
C1_AllJoinedOnReturn ==
    [][(hcPc # "done" /\ hcPc' = "done")
         => \A p \in DOMAIN procs' : procs'[p].signalled /\ p \in awaited']_vars

\* C2: at most two tcpip-forward requests are replied true, and a
\* tcpip-forward request that arrives after two others is replied false
\* without opening a listener, spawning a dispatcher or sending on the
\* forwards queue.
C2_ForwardCap ==
    /\ [](TcpipForwardsAccepted <= 2)
    /\ [][(/\ hfrPc = "recv" /\ reqs # <<>> /\ reqs' = Tail(reqs)
           /\ Head(reqs).Type = "tcpip-forward"
           /\ TcpipForwardsSeen >= 2)
          => /\ globalLog' = Append(globalLog, GlobalReply(Head(reqs), FALSE, 0))
             /\ procs' = procs
             /\ forwardedTCPIPs' = forwardedTCPIPs
             /\ hfrPc' = "recv"]_vars

C2_Witness ==
    /\ TcpipForwardsSeen >= 3
    /\ TcpipForwardsAccepted = 2
    /\ Cardinality(Dispatchers) = 2

\* C3, as claimed: in a forward-worker session with a heartbeater, both
\* GardenAddr and BaggageclaimURL of the heartbeater's descriptor point at
\* the gateway and neither keeps the declared value.
C3_BothRewritten ==
    InForwardedSession =>
        /\ PointsAtGateway(SessionWorker.GardenAddr)
        /\ PointsAtGateway(SessionWorker.BaggageclaimURL)
        /\ SessionWorker.GardenAddr \notin DeclaredGardenAddrs
        /\ SessionWorker.BaggageclaimURL \notin DeclaredBaggageclaimURLs

\* C3, amended: in a forward-worker session with a heartbeater, GardenAddr
\* is forwardHost with the bound port of a collected forward; BaggageclaimURL
\* is http://forwardHost with the bound port of a collected forward when the
\* forwards map holds two entries, and is the declared value when it holds
\* one.
C3_GardenRewritten ==
    InForwardedSession =>
        /\ \E e \in forwards :
             SessionWorker.GardenAddr = HostPort(forwardHost, procs[e.process].boundPort)
        /\ SessionWorker.GardenAddr \notin DeclaredGardenAddrs
        /\ IF Cardinality(forwards) = 2
           THEN \E e \in forwards :
                  SessionWorker.BaggageclaimURL =
                      HttpURL(forwardHost, procs[e.process].boundPort)
           ELSE SessionWorker.BaggageclaimURL \in DeclaredBaggageclaimURLs

C3_Witness ==
    /\ InForwardedSession
    /\ Cardinality(forwards) = 1
    /\ SessionWorker.BaggageclaimURL \in DeclaredBaggageclaimURLs

\* C4: with two forwards of distinct bind addresses collected and both
\* declared addresses found, GardenAddr is forwardHost:P, P the listener port
\* of the forward bound to the declared garden address, and BaggageclaimURL
\* is http://forwardHost:Q, Q the listener port of the forward bound to the
\* declared baggageclaim address.
C4_PortsCorrelated ==
    (InForwardedSession /\ Cardinality(forwards) = 2) =>
        /\ \E e \in forwards :
             /\ e.bindAddr = r.garden
             /\ SessionWorker.GardenAddr = HostPort(forwardHost, procs[e.process].boundPort)
        /\ \E e \in forwards :
             /\ e.bindAddr = r.baggageclaim
             /\ SessionWorker.BaggageclaimURL =
                    HttpURL(forwardHost, procs[e.process].boundPort)

\* the garden forward was requested after the baggageclaim forward
C4_Witness ==
    /\ InForwardedSession
    /\ Cardinality(forwards) = 2
    /\ \E g \in forwards, b \in forwards :
         /\ g.bindAddr = r.garden
         /\ b.bindAddr = r.baggageclaim
         /\ g.process > b.process

\* C5: a connection has a session handler, and so a heartbeater, only if
\* its handshake succeeded.
C5_AuthGating ==
    \A c \in 1..MaxConns :
        (handler[c] # "none" \/ heartbeaters[c] > 0) => handshake[c] = "ok"

C5_Witness ==
    \E c \in 1..MaxConns, d \in 1..MaxConns :
        /\ handshake[c] = "failed"
        /\ handler[c] = "none"
        /\ c < d
        /\ heartbeaters[d] > 0

\* C6, as claimed: every exec request whose command parses (register-worker
\* or forward-worker) is replied true.
C6_ValidExecRepliedTrue ==
    \A k \in DOMAIN channelLog :
        (/\ channelLog[k].request.Type = "exec"
         /\ channelLog[k].request.payloadOK
         /\ parseRequest(channelLog[k].request.Command).ok)
        => channelLog[k].reply = "true"

\* C7, as claimed: once any malformed client message has been handled (bad
\* exec payload, unparseable command, bad tcpip-forward payload, undecodable
\* worker JSON), handleConn is in cleanup or has returned.
MalformedSeen ==
    \/ "malformed-exec-request" \in logged
    \/ "failed-to-register" \in logged
    \/ "malformed-tcpip-request" \in logged
    \/ \E k \in DOMAIN channelOut : channelOut[k].msg = "invalid command"

C7_MalformedTerminates == MalformedSeen => hcPc \in CleanupPcs

\* C7, amended: after a bad exec payload or an undecodable worker JSON,
\* handleConn is in cleanup or has returned and no heartbeater is started any
\* more; an unparseable command is replied false and the loop over requests
\* goes on; a bad tcpip-forward payload is replied false and leaves
\* handleConn where it is.
FatalSeen ==
    \/ "malformed-exec-request" \in logged
    \/ "failed-to-register" \in logged

C7_FatalTerminates ==
    /\ [](FatalSeen => hcPc \in CleanupPcs)
    /\ [][FatalSeen => Heartbeaters' = Heartbeaters]_vars
    /\ [][(/\ hcPc = "requests" /\ requests # <<>> /\ requests' = Tail(requests)
           /\ Head(requests).Type = "exec" /\ Head(requests).payloadOK
           /\ ~parseRequest(Head(requests).Command).ok)
          => /\ hcPc' = "requests"
             /\ Last(channelLog').reply = "false"]_vars
    /\ [][(/\ hfrPc = "recv" /\ reqs # <<>> /\ reqs' = Tail(reqs)
           /\ Head(reqs).Type = "tcpip-forward" /\ ~Head(reqs).payloadOK)
          => /\ hcPc' = hcPc
             /\ ~Last(globalLog').ok]_vars

C7_Witness ==
    /\ \E k \in DOMAIN channelOut : channelOut[k].msg = "invalid command"
    /\ FatalSeen
    /\ hcPc = "done"

\* C8: once the connection has terminated, every listener opened for one of
\* its tcpip-forward requests gets closed and every forward dispatcher exits,
\* whether or not its record was collected.
AllForwardsDown ==
    \A p \in Dispatchers : ~procs[p].listenerOpen /\ procs[p].state = "exited"

C8_ListenersEventuallyClosed == (~connOpen) ~> (hfrPc = "done" /\ AllForwardsDown)

\* a dispatcher that handleConn never recorded has exited
C8_Witness ==
    /\ ~connOpen
    /\ hcPc = "done"
    /\ \E p \in Dispatchers :
         /\ p \notin RangeOf(processes)
         /\ procs[p].state = "exited"

\* C9, as claimed: at most one heartbeater is ever started on a connection.
C9_AtMostOneHeartbeater == Cardinality(Heartbeaters) <= 1

\* C10: a failed handshake spawns no handler and sends Serve back to accept;
\* Serve returns only out of a failing Accept.
C10_HandshakeNotFatal ==
    /\ [][(servePc = "handshake" /\ handshake'[accepted] = "failed")
          => servePc' = "accept" /\ handler' = handler]_vars
    /\ [][(servePc # "returned" /\ servePc' = "returned") => servePc = "accept"]_vars

C10_Witness ==
    \E c \in 1..MaxConns :
        /\ handshake[c] = "failed"
        /\ handler[c] = "none"
        /\ accepted > c
        /\ servePc # "returned"

\* the step of handleConn that takes the next new channel off chans
TakesNewChannel == hcPc = "chans" /\ chans # <<>> /\ chans' = Tail(chans)

\* every process handleConn recorded has been interrupted and awaited
RecordedJoined ==
    \A p \in RangeOf(processes) : procs[p].signalled /\ p \in awaited

\* C11: a new channel whose type is not "session" is rejected as an unknown
\* channel type and changes nothing of the handler (no process recorded or
\* spawned, no session opened, the loop over chans goes on); a session
\* channel is accepted; and when the handler has returned, cleanup has run
\* over everything it recorded.
C11_OnlySessionChannels ==
    /\ [][(TakesNewChannel /\ Head(chans) # "session")
          => /\ hcPc' = "chans"
             /\ "rejecting-unknown-channel-type" \in logged'
             /\ UNCHANGED <<connOpen, channelOpen, requests, hcLocals, procs, awaited,
                            channelLog, channelOut, forwardedTCPIPs>>]_vars
    /\ [][(TakesNewChannel /\ Head(chans) = "session" /\ connOpen)
          => hcPc' = "requests" /\ channelOpen']_vars
    /\ [](hcPc = "done" => RecordedJoined)

\* a channel of another type was rejected, a session was served and started
\* a heartbeater, and the handler has returned
C11_Witness ==
    /\ "rejecting-unknown-channel-type" \in logged
    /\ Heartbeaters # {}
    /\ hcPc = "done"

\* the step of handleForwardRequests that replies true to a tcpip-forward
RepliesForwarded == hfrPc = "send" /\ hfrPc' = "recv"

\* C12, as claimed: for an accepted tcpip-forward request with bindPort zero,
\* the port in the reply and the dispatcher's forPort are the listener's
\* OS-chosen port; with bindPort non-zero, both are the requested bindPort.
C12_ReportedPortFollowsBindPort ==
    [][RepliesForwarded =>
        LET bindPort == pending.request.req.BindPort
            d == procs[pending.process]
            reply == Last(globalLog')
        IN /\ reply.ok
           /\ IF bindPort = 0
              THEN reply.BoundPort = d.boundPort /\ d.forwardPort = d.boundPort
              ELSE reply.BoundPort = bindPort /\ d.forwardPort = bindPort]_vars

\* C12, amended: the dispatcher's forPort is the listener's OS-chosen port
\* when bindPort is zero and the requested bindPort otherwise; the port in
\* the reply is the listener's OS-chosen port in both cases.
C12_ReplyCarriesBoundPort ==
    [][RepliesForwarded =>
        LET bindPort == pending.request.req.BindPort
            d == procs[pending.process]
            reply == Last(globalLog')
        IN /\ reply.ok
           /\ reply.request = pending.request
           /\ reply.BoundPort = d.boundPort
           /\ d.boundPort \in OSPorts
           /\ d.forwardPort = IF bindPort = 0 THEN d.boundPort ELSE bindPort]_vars

\* one forward was accepted with bindPort zero and one with bindPort
\* non-zero, the latter reported with a port that is not its bindPort
C12_Witness ==
    /\ \E k \in DOMAIN globalLog :
         globalLog[k].ok /\ globalLog[k].request.req.BindPort = 0
    /\ \E k \in DOMAIN globalLog :
         /\ globalLog[k].ok
         /\ globalLog[k].request.req.BindPort # 0
         /\ globalLog[k].BoundPort # globalLog[k].request.req.BindPort
    /\ \E p \in Dispatchers : procs[p].forwardPort # procs[p].boundPort

\* global requests the connection has delivered to handleForwardRequests so
\* far: replied, being served, or still waiting on reqs
GlobalReceived ==
    Len(globalLog) + Len(reqs) + (IF hfrPc = "send" THEN 1 ELSE 0)

\* C13: whenever handleForwardRequests is about to push a forward record the
\* forwards queue has room, whatever the client sends and whether or not
\* handleConn ever collects; and every global request delivered to
\* handleForwardRequests is eventually replied.
C13_ProducerNeverBlocks ==
    /\ [](hfrPc = "send" => Len(forwardedTCPIPs) < QueueCap)
    /\ \A n \in 1..(MaxFairClientMsgs + 1) :
         (GlobalReceived >= n) ~> (Len(globalLog) >= n)

\* the queue is full, handleConn never collected, and a third tcpip-forward
\* request has been replied
C13_Witness ==
    /\ Len(forwardedTCPIPs) = QueueCap
    /\ hcPc = "chans"
    /\ TcpipForwardsSeen >= 3
    /\ Len(globalLog) = GlobalReceived

\* dispatchers handleConn has collected, in the order it recorded them
CollectedDispatchers == SelectSeq(processes, LAMBDA p : p \in Dispatchers)

\* dispatchers whose records wait on the forwards queue, in queue order
QueuedDispatchers == [k \in DOMAIN forwardedTCPIPs |-> forwardedTCPIPs[k].process]

Ascending(q) == \A a \in DOMAIN q, b \in DOMAIN q : a < b => q[a] < q[b]

\* forward-worker exec requests handleConn has taken so far
ForwardWorkerExecs ==
    Cardinality({ k \in DOMAIN channelLog :
                    /\ channelLog[k].request.Type = "exec"
                    /\ channelLog[k].request.payloadOK
                    /\ channelLog[k].request.Command.name = "forward-worker" })

\* the step of the collection loop in which the ten-second timer fires
CollectionTimesOut ==
    hcPc = "collect" /\ i' = i + 1 /\ forwardedTCPIPs' = forwardedTCPIPs

\* C14: when a tcpip-forward request has been replied true its record has
\* been pushed (it is on the queue or has been collected); records are
\* queued and collected in the order their forwards were set up; and in the
\* first forward-worker session no collection timeout fires once as many
\* tcpip-forward requests have been replied true as the request expects.
C14_PushedBeforeReply ==
    /\ [](TcpipForwardsAccepted <= Len(CollectedDispatchers) + Len(QueuedDispatchers))
    /\ [](Ascending(CollectedDispatchers \o QueuedDispatchers))
    /\ [][(CollectionTimesOut /\ ForwardWorkerExecs = 1)
          => TcpipForwardsAccepted < expectedForwards(r)]_vars

\* two forwards were replied true before the exec was handled and both were
\* collected in order with no timeout
C14_Witness ==
    /\ InForwardedSession
    /\ expectedForwards(r) = 2
    /\ Len(CollectedDispatchers) = 2
    /\ Cardinality(forwards) = 2
    /\ "never-forwarded-tcpip" \notin logged

\* the step of the collection loop in which a record is received
CollectsRecord ==
    hcPc = "collect" /\ forwardedTCPIPs # <<>> /\ forwardedTCPIPs' = Tail(forwardedTCPIPs)

\* the collection loop is in its last iteration
LastIteration == hcPc = "collect" /\ i + 1 = expectedForwards(r)

\* the step that ends the collection loop with exactly one record collected
\* in the session: the record received now and none before, or a timeout now
\* and a record before
EndsWithOneCollected ==
    /\ LastIteration
    /\ \/ CollectsRecord /\ forwards = {}
       \/ CollectionTimesOut /\ forwards # {}

\* the one record of EndsWithOneCollected
TheOneCollected ==
    IF forwards = {} THEN Head(forwardedTCPIPs) ELSE CHOOSE e \in forwards : TRUE

\* C15: each iteration of the collection loop receives one record or lets one
\* timer expire, and there are exactly expectedForwards() iterations, so no
\* more than that many records are collected; when the loop ends with exactly
\* one record collected, handleConn goes on to the Garden-only registration:
\* the heartbeater's GardenAddr is forwardHost with the listener port of that
\* forward and BaggageclaimURL is the declared one.
C15_OneCollectedGardenOnly ==
    /\ [](hcPc = "collect" => i < expectedForwards(r))
    /\ [][hcPc = "collect" =>
            \/ UNCHANGED <<hcPc, hcLocals>>
            \/ /\ i' = i + 1
               /\ \/ CollectionTimesOut /\ processes' = processes
                  \/ /\ CollectsRecord
                     /\ processes' = Append(processes, Head(forwardedTCPIPs).process)]_vars
    /\ [][EndsWithOneCollected =>
            /\ hcPc' = "decode-forwarded"
            /\ args' = [gardenPort |-> procs[TheOneCollected.process].boundPort,
                        baggageclaimPort |-> 0]]_vars
    /\ [][(hcPc = "decode-forwarded" /\ hcPc' = "wait" /\ Cardinality(forwards) = 1) =>
            LET e == CHOOSE e \in forwards : TRUE
                w == Last(procs').worker
            IN /\ w.GardenAddr = HostPort(forwardHost, procs[e.process].boundPort)
               /\ w.BaggageclaimURL \in DeclaredBaggageclaimURLs]_vars

\* two forwards were expected, one was collected and one timer expired: the
\* session registers Garden only
C15_Witness ==
    /\ InForwardedSession
    /\ expectedForwards(r) = 2
    /\ Len(CollectedDispatchers) = 1
    /\ "never-forwarded-tcpip" \in logged
    /\ SessionWorker.BaggageclaimURL \in DeclaredBaggageclaimURLs

\* the step that ends the collection loop with two records collected in the
\* session: one before, and the one received now
EndsWithTwoCollected == LastIteration /\ CollectsRecord /\ forwards # {}

\* bind addresses of those two records
TwoCollectedAddrs ==
    { e.bindAddr : e \in forwards } \cup { Head(forwardedTCPIPs).bindAddr }

\* the step that ends the collection loop with no record collected
EndsWithNoneCollected == LastIteration /\ CollectionTimesOut /\ forwards = {}

DiagnosticWritten == Len(channelOut') = Len(channelOut) + 1

\* C16, as claimed: when the collection loop ends with two records
\* collected, handleConn takes the two-forward branch whatever the bind
\* addresses of the two are: either a declared address is found in neither
\* and the session ends with a diagnostic, or both are found and both ports
\* are passed on to the registration.
C16_TwoCollectedBothLookedUp ==
    [][EndsWithTwoCollected =>
        IF r.garden \in TwoCollectedAddrs /\ r.baggageclaim \in TwoCollectedAddrs
        THEN /\ hcPc' = "decode-forwarded"
             /\ args'.gardenPort # 0
             /\ args'.baggageclaimPort # 0
        ELSE hcPc' = "cleanup" /\ DiagnosticWritten]_vars

\* C17, as claimed: when the collection loop ends with no record collected,
\* or with two collected of which none is bound to the declared garden
\* address or none to the declared baggageclaim address, handleConn writes a
\* diagnostic, starts no heartbeater and goes to cleanup; and when it has
\* returned every dispatcher it collected has been interrupted and awaited.
C17_NoMatchEndsSession ==
    /\ [][(\/ EndsWithNoneCollected
           \/ /\ EndsWithTwoCollected
              /\ \/ r.garden \notin TwoCollectedAddrs
                 \/ r.baggageclaim \notin TwoCollectedAddrs)
          => /\ hcPc' = "cleanup"
             /\ DiagnosticWritten
             /\ Heartbeaters' = Heartbeaters]_vars
    /\ [](hcPc = "done" =>
            \A p \in RangeOf(CollectedDispatchers) : procs[p].signalled /\ p \in awaited)

AllRecordedSignalled == \A p \in RangeOf(processes) : procs[p].signalled

\* the step of cleanup's second loop that receives from a process's Wait()
AwaitsProcess == hcPc = "cleanup-wait" /\ awaited' # awaited

\* C18: cleanup has interrupted every recorded process before it waits on
\* any; it waits on each, in order, logging an exit error and going on to the
\* next process all the same; handleConn closes the connection only as it
\* returns, with every recorded process exited and awaited.
C18_CleanupOrder ==
    /\ [](hcPc = "cleanup-wait" => AllRecordedSignalled)
    /\ [][AwaitsProcess =>
            /\ AllRecordedSignalled
            /\ procs[processes[waitIdx]].state = "exited"
            /\ awaited' = awaited \cup {processes[waitIdx]}
            /\ procs[processes[waitIdx]].exitErr => "process-exited-with-failure" \in logged'
            /\ IF waitIdx < Len(processes)
               THEN hcPc' = "cleanup-wait" /\ waitIdx' = waitIdx + 1 /\ connOpen' = connOpen
               ELSE hcPc' = "done"]_vars
    /\ [][(hcPc # "done" /\ hcPc' = "done") =>
            /\ ~connOpen'
            /\ \A p \in RangeOf(processes) : p \in awaited' /\ procs[p].state = "exited"]_vars
    /\ [][(connOpen /\ ~connOpen' /\ hcPc' # hcPc) => hcPc' = "done"]_vars

\* handleConn has returned after awaiting a process that exited with an error
\* and then another one
C18_Witness ==
    /\ hcPc = "done"
    /\ \E k \in 1..(Len(processes) - 1) :
         /\ procs[processes[k]].exitErr
         /\ processes[k + 1] \in awaited
    /\ "process-exited-with-failure" \in logged

\* C19: from the start of a heartbeater until the connection closes
\* handleConn stays in conn.Wait() and no process of the connection has been
\* interrupted, whichever cadence the heartbeater's registrations put it in;
\* handleConn leaves conn.Wait() only with the connection closed; and once
\* the connection has closed, handleConn returns with every heartbeater
\* interrupted and awaited.
C19_BlocksUntilClosed ==
    /\ []((Heartbeaters # {} /\ connOpen) =>
            /\ hcPc = "wait"
            /\ \A p \in ProcIds : ~procs[p].signalled)
    /\ [][(hcPc = "wait" /\ hcPc' # "wait") => ~connOpen]_vars
    /\ (Heartbeaters # {} /\ ~connOpen) ~>
           (hcPc = "done" /\ \A p \in Heartbeaters : procs[p].signalled /\ p \in awaited)

\* a heartbeater whose last registration failed was interrupted and awaited
\* after the connection closed
C19_Witness ==
    /\ hcPc = "done"
    /\ \E p \in Heartbeaters :
         /\ procs[p].cadence = "cpr"
         /\ procs[p].signalled
         /\ p \in awaited

\* C20: the process closes ready as its first step and then sits in the
\* accept loop, spawning a forwardLocalConn per accepted connection; once it
\* has been interrupted its listener gets closed and its function returns,
\* whether or not forwardLocalConn goroutines are still running; and the
\* accept loop is left only by returning, which any accept failure brings
\* about without touching those goroutines.
C20_DispatcherExits ==
    /\ [](fwdPc # "start" => fwdReady)
    /\ [][fwdPc = "start" => (fwdPc' = "start" \/ fwdPc' = "accept")]_vars
    /\ [](fwdSigPc = "done" => fwdSignals /\ fwdListener = "closed")
    /\ [][(fwdPc = "accept" /\ fwdPc' # "accept")
          => fwdPc' = "returned" /\ fwdTasks' = fwdTasks]_vars
    /\ fwdSignals ~> (fwdPc = "returned" /\ fwdListener = "closed")

\* the interrupted process has returned while a forwardLocalConn it spawned
\* is still running
C20_Witness ==
    /\ fwdSignals
    /\ fwdSigPc = "done"
    /\ fwdPc = "returned"
    /\ \E t \in DOMAIN fwdTasks : fwdTasks[t] = "running"

\* io.Copy of pipe p has returned
CopyOver(p) == flcPipes[p] \in {"close-from", "close-to", "returned"}

BothEndsClosed == flcLocalConn = "closed" /\ flcChannel = "closed"

\* C21, as claimed: once the copy of either pipe is over both ends get closed
\* and both pipes return; forwardLocalConn returns only after both pipe
\* goroutines have returned, and with both ends closed.
C21_ReturnsAfterPipesReturned ==
    /\ \A p \in Pipes : CopyOver(p) ~> BothEndsClosed
    /\ \A p \in Pipes : CopyOver(p) ~> (\A q \in Pipes : flcPipes[q] = "returned")
    /\ []((flcPc = "returned" /\ flcChannel # "none")
            => BothEndsClosed /\ \A p \in Pipes : flcPipes[p] = "returned")

\* C21, amended: once the copy of either pipe is over both ends get closed,
\* both pipes return and forwardLocalConn returns; forwardLocalConn returns
\* only after the copies of both pipes are over, each pipe having called
\* wg.Done() before it closes its two ends, and with both ends closed.
C21_ReturnsAfterCopiesOver ==
    /\ \A p \in Pipes : CopyOver(p) ~> BothEndsClosed
    /\ \A p \in Pipes :
         CopyOver(p) ~> (flcPc = "returned" /\ \A q \in Pipes : flcPipes[q] = "returned")
    /\ [](flcWg = Cardinality({ p \in Pipes : flcPipes[p] = "copy" }))
    /\ []((flcPc = "returned" /\ flcChannel # "none")
            => BothEndsClosed /\ \A p \in Pipes : CopyOver(p))
    /\ [](flcPc = "returned" => flcLocalConn = "closed" /\ flcChannel # "open")

\* forwardLocalConn has returned while a pipe is still at its deferred
\* Close() calls
C21_Witness ==
    /\ flcPc = "returned"
    /\ BothEndsClosed
    /\ \E p \in Pipes : flcPipes[p] \in {"close-from", "close-to"}
    /\ \A p \in Pipes : CopyOver(p)

\* global requests handleForwardRequests has taken off reqs
GlobalConsumed == Len(globalLog) + (IF hfrPc = "send" THEN 1 ELSE 0)

\* tcpip-forward requests, malformed or not, replied before the k-th reply
CountedBefore(k) ==
    Cardinality({ j \in 1..(k - 1) : globalLog[j].request.Type = "tcpip-forward" })

\* the step of handleForwardRequests that takes a request off reqs
ConsumesGlobalRequest == hfrPc = "recv" /\ reqs # <<>> /\ reqs' = Tail(reqs)

\* C22: a request taken off reqs is replied false in the same iteration, with
\* nothing spawned or enqueued, or a dispatcher is spawned for it and it is
\* replied true once, as its record is enqueued; nothing else is ever
\* replied, and every request taken is eventually replied. A reply is true
\* only for a well-formed tcpip-forward among the first two tcpip-forward
\* requests, malformed ones counted: requests of other types, malformed
\* tcpip-forwards and later tcpip-forwards are replied false.
C22_ExactlyOneReply ==
    /\ [][ConsumesGlobalRequest =>
            \/ /\ Len(globalLog') = Len(globalLog) + 1
               /\ \A k \in DOMAIN globalLog : globalLog'[k] = globalLog[k]
               /\ Last(globalLog').request = Head(reqs)
               /\ ~Last(globalLog').ok
               /\ hfrPc' = "recv"
               /\ procs' = procs
               /\ forwardedTCPIPs' = forwardedTCPIPs
            \/ /\ globalLog' = globalLog
               /\ hfrPc' = "send"
               /\ pending'.request = Head(reqs)
               /\ Len(procs') = Len(procs) + 1
               /\ pending'.process = Len(procs')
               /\ procs'[pending'.process].listenerOpen]_vars
    /\ [][globalLog' # globalLog =>
            \/ ConsumesGlobalRequest
            \/ /\ hfrPc = "send" /\ hfrPc' = "recv"
               /\ Len(globalLog') = Len(globalLog) + 1
               /\ \A k \in DOMAIN globalLog : globalLog'[k] = globalLog[k]
               /\ Last(globalLog').request = pending.request
               /\ Last(globalLog').ok
               /\ Len(forwardedTCPIPs') = Len(forwardedTCPIPs) + 1
               /\ Last(forwardedTCPIPs').process = pending.process]_vars
    /\ [](\A k \in DOMAIN globalLog :
            globalLog[k].ok =>
                /\ globalLog[k].request.Type = "tcpip-forward"
                /\ globalLog[k].request.payloadOK
                /\ CountedBefore(k) < ForwardCap
                /\ globalLog[k].BoundPort \in OSPorts)
    /\ [](TcpipForwardsAccepted + (IF hfrPc = "send" THEN 1 ELSE 0) = Cardinality(Dispatchers))
    /\ \A n \in 1..(MaxFairClientMsgs + 1) :
         (GlobalConsumed >= n) ~> (Len(globalLog) >= n)

\* a malformed tcpip-forward was replied false, the next tcpip-forward true,
\* and the one after it false although its listener could have been opened
C22_Witness ==
    /\ Len(globalLog) = 3
    /\ globalLog[1].request.Type = "tcpip-forward" /\ ~globalLog[1].request.payloadOK
    /\ ~globalLog[1].ok
    /\ globalLog[2].ok
    /\ globalLog[3].request.Type = "tcpip-forward" /\ globalLog[3].request.payloadOK
    /\ ~globalLog[3].ok
    /\ "failed-to-listen" \notin logged

====
